---- MODULE Spec2Model ----
(***************************************************************************)
(* Model of src/main.py: a Streamlit script that loads every .json file    *)
(* of the directory data/ into one DataFrame (load_data, cached by         *)
(* st.cache_data), filters it by the years chosen in the sidebar and       *)
(* computes three aggregates: top_artists, heatmap_data and top_tracks.    *)
(*                                                                         *)
(* One run of the script is one action, RunScript.  The file system is the *)
(* environment: files are written and removed between runs.                *)
(*                                                                         *)
(* Names of artists and tracks are positive integers, NaN stands for an    *)
(* absent (null) value.  hours_played is kept in thousandths of an hour;   *)
(* every ms_played of the model is a multiple of 3600 ms, so the float     *)
(* division of the source is exact in that unit.  The chart, table and     *)
(* download calls of the script (lines 80-126, 145-159, 176-203) draw what *)
(* the aggregates hold and are not modelled.                               *)
(***************************************************************************)
EXTENDS Integers, Sequences, FiniteSets, TLC

VARIABLES
    dir_exists,     \* os.path.exists('data/')
    files,          \* the files of data/: file name -> content
    observed,       \* pandas' default of pivot_table(observed=...), fixed by the build
    cache,          \* st.cache_data's entry for load_data()
    outcome,        \* how the last run of the script ended
    errors,         \* st.error messages of the last run
    warnings,       \* st.warning messages of the last run
    df,             \* the DataFrame load_data returned
    year_filter,    \* the sidebar's multiselect
    num_artists,    \* the sidebar's slider
    df_filtered,    \* the script's df_filtered when the run ended
    top_artists,
    heatmap_data,
    top_tracks

vars == <<dir_exists, files, observed, cache, outcome, errors, warnings, df,
          year_filter, num_artists, df_filtered, top_artists, heatmap_data,
          top_tracks>>

(***************************************************************************)
(* Bounds of the model.                                                    *)
(***************************************************************************)
MaxLogLen == 2      \* records of a generated batch
SliderSteps == 2    \* slider positions the model tries: 5, 10, ...

(***************************************************************************)
(* Constants of the program.                                               *)
(***************************************************************************)
NaN == 0                    \* a null of the JSON record
MsPerHour == 3600000
HourScale == 1000           \* hours_played is counted in 1/HourScale hours
SliderMin == 5
SliderMax == 500
SliderStep == 5
TrackLimit == 100
day_order == <<"Monday", "Tuesday", "Wednesday", "Thursday", "Friday",
               "Saturday", "Sunday">>
json_dir == <<"d", "a", "t", "a", "/">>
JsonSuffix == <<".", "j", "s", "o", "n">>

(***************************************************************************)
(* Sequences.                                                              *)
(***************************************************************************)
Range(s) == {s[i] : i \in DOMAIN s}

Orders(S) ==
    {s \in [1..Cardinality(S) -> S] : \A i, j \in DOMAIN s : s[i] = s[j] => i = j}

\* str.endswith
EndsWith(file, suffix) ==
    /\ Len(file) >= Len(suffix)
    /\ SubSeq(file, Len(file) - Len(suffix) + 1, Len(file)) = suffix

RECURSIVE Concat(_)
\* pd.concat(dataframes, ignore_index=True)
Concat(dataframes) ==
    IF dataframes = <<>> THEN <<>>
    ELSE Head(dataframes) \o Concat(Tail(dataframes))

(***************************************************************************)
(* Timestamps.  The text of a ts is the record [Y, M, D, h] of its fields. *)
(***************************************************************************)
IsLeap(y) == (y % 4 = 0 /\ y % 100 # 0) \/ y % 400 = 0

DaysInMonth(y, m) ==
    IF m = 2 THEN (IF IsLeap(y) THEN 29 ELSE 28)
    ELSE IF m \in {4, 6, 9, 11} THEN 30 ELSE 31

\* pd.to_datetime accepts the text
Parseable(ts) ==
    /\ ts.M \in 1..12
    /\ ts.D \in 1..DaysInMonth(ts.Y, ts.M)
    /\ ts.h \in 0..23

MonthOffset == <<0, 3, 2, 5, 0, 3, 5, 1, 4, 6, 2, 4>>

\* Series.dt.day_name()
DayName(ts) ==
    LET y == IF ts.M < 3 THEN ts.Y - 1 ELSE ts.Y
        w == (y + (y \div 4) - (y \div 100) + (y \div 400)
                + MonthOffset[ts.M] + ts.D) % 7     \* 0 is Sunday
    IN  day_order[((w + 6) % 7) + 1]

\* df['ms_played'] / 3600000
HoursPlayed(ms) == ms \div (MsPerHour \div HourScale)

(***************************************************************************)
(* load_data.                                                              *)
(***************************************************************************)
LoadWarning(file) == [msg |-> "Error loading", file |-> file]
CreatedWarning == [msg |-> "Created missing directory", file |-> json_dir]

RECURSIVE ReadBatchesErrorEscapes(_, _)
\* the loop without its try/except: the first file that fails ends the loop
\* and what was read is lost
ReadBatchesErrorEscapes(fs, listing) ==
    IF listing = <<>> THEN [dataframes |-> <<>>, warnings |-> <<>>]
    ELSE LET file == Head(listing)
             rest == ReadBatchesErrorEscapes(fs, Tail(listing))
         IN  IF ~EndsWith(file, JsonSuffix) THEN rest
             ELSE IF ~fs[file].text_ok \/ rest.warnings # <<>>
                  THEN [dataframes |-> <<>>,
                        warnings |-> <<LoadWarning(file)>> \o rest.warnings]
                  ELSE [rest EXCEPT !.dataframes = <<fs[file].data>> \o @]

RECURSIVE ReadBatches(_, _)
\* lines 23-30: the loop over os.listdir(json_dir), in the order listing
ReadBatches(fs, listing) ==
    IF listing = <<>> THEN [dataframes |-> <<>>, warnings |-> <<>>]
    ELSE LET file == Head(listing)
             rest == ReadBatches(fs, Tail(listing))
         IN  IF ~EndsWith(file, JsonSuffix) THEN rest
             ELSE IF fs[file].text_ok
                  THEN [rest EXCEPT !.dataframes = <<fs[file].data>> \o @]
                  ELSE [rest EXCEPT !.warnings = <<LoadWarning(file)>> \o @]

\* lines 36-38: one row of the returned frame
Event(rec) ==
    [ts |-> rec.ts,
     ms_played |-> rec.ms_played,
     master_metadata_album_artist_name |-> rec.master_metadata_album_artist_name,
     master_metadata_track_name |-> rec.master_metadata_track_name,
     hours_played |-> HoursPlayed(rec.ms_played)]

\* lines 36-39
BuildLog(dataframes) ==
    LET rows == Concat(dataframes)
    IN  IF rows = <<>> \/ \E i \in DOMAIN rows : ~Parseable(rows[i].ts)
        THEN [outcome |-> "raised", df |-> <<>>]    \* KeyError 'ts' / to_datetime raises
        ELSE [outcome |-> "ok", df |-> [i \in DOMAIN rows |-> Event(rows[i])]]

\* the body of load_data, lines 10-39
LoadData(exists, fs, listing) ==
    LET created == IF exists THEN <<>> ELSE <<CreatedWarning>>
        read == ReadBatches(fs, listing)
        built == BuildLog(read.dataframes)
    IN  IF listing = <<>>
        THEN [outcome |-> "stopped", df |-> <<>>, warnings |-> created,
              errors |-> <<"No JSON files found">>]
        ELSE IF read.dataframes = <<>>
        THEN [outcome |-> "stopped", df |-> <<>>,
              warnings |-> created \o read.warnings,
              errors |-> <<"No valid data loaded">>]
        ELSE [outcome |-> built.outcome, df |-> built.df,
              warnings |-> created \o read.warnings, errors |-> <<>>]

\* @st.cache_data: a returned value is stored with the messages the call
\* showed, a call that stops or raises stores nothing
CachedLoad(c, exists, fs, listing) ==
    IF c.hit THEN [outcome |-> "ok", df |-> c.df, warnings |-> c.warnings,
                   errors |-> <<>>]
    ELSE LoadData(exists, fs, listing)

NoCache == [hit |-> FALSE, df |-> <<>>, warnings |-> <<>>]

(***************************************************************************)
(* The aggregates.  A grouped Series is a sequence of [key, hours_played]  *)
(* in the order of its index; a key is the tuple of the grouping columns.  *)
(***************************************************************************)
\* the order groupby sorts its keys in
KeyLess(a, b) ==
    \E i \in DOMAIN a : a[i] < b[i] /\ \A j \in 1..(i - 1) : a[j] = b[j]

\* the function f, computed once for all its arguments
Stored(f) == f @@ <<>>

RECURSIVE SumRange(_, _, _)
\* the sum of hours_played over rows[lo..hi], by halves
SumRange(rows, lo, hi) ==
    IF lo > hi THEN 0
    ELSE IF lo = hi THEN rows[lo].hours_played
    ELSE LET mid == (lo + hi) \div 2
         IN  SumRange(rows, lo, mid) + SumRange(rows, mid + 1, hi)

\* Series.sum()
SumHours(rows) == SumRange(rows, 1, Len(rows))

\* .groupby(keys)['hours_played'].sum(): one entry for each key that occurs,
\* in the order of the keys, holding the sum over the rows of that key
GroupSum(items) ==
    LET keys == {items[i].key : i \in DOMAIN items}
        place == Stored([k \in keys |->
                            1 + Cardinality({j \in keys : KeyLess(j, k)})])
    IN  [p \in 1..Cardinality(keys) |->
            LET k == CHOOSE k \in keys : place[k] = p
            IN  [key |-> k,
                 hours_played |->
                    SumHours(SelectSeq(items, LAMBDA it : it.key = k))]]

\* whether row i of items comes before row j in the sorted frame: by
\* hours_played, rows of equal hours_played keeping their order (numpy's
\* default sort keeps it for short arrays and promises nothing for long ones;
\* no property below reads the order of equal rows)
Before(items, i, j, ascending) ==
    \/ IF ascending THEN items[i].hours_played < items[j].hours_played
                    ELSE items[i].hours_played > items[j].hours_played
    \/ items[i].hours_played = items[j].hours_played /\ i < j

\* .sort_values('hours_played', ascending=...)
SortValues(items, ascending) ==
    LET place == Stored([j \in DOMAIN items |->
                            1 + Cardinality({i \in DOMAIN items :
                                                Before(items, i, j, ascending)})])
    IN  [p \in DOMAIN items |-> items[CHOOSE j \in DOMAIN items : place[j] = p]]

Min(a, b) == IF a < b THEN a ELSE b

\* Series.nlargest(n): the n largest in descending order, the first of equals kept
NLargest(series, n) ==
    LET sorted == SortValues(series, FALSE)
    IN  SubSeq(sorted, 1, Min(n, Len(sorted)))

\* range(1, len(top) + 1)
RankOf(i, len) == i

\* DataFrame.dropna(subset=[column])
DropNaArtist(rows) ==
    SelectSeq(rows, LAMBDA r : r.master_metadata_album_artist_name # NaN)

DropNaTrack(rows) ==
    SelectSeq(rows, LAMBDA r : r.master_metadata_track_name # NaN)

\* line 54: df[df['ts'].dt.year.isin(year_filter)]
FilterYears(log, yf) == SelectSeq(log, LAMBDA r : r.ts.Y \in yf)

\* line 48: the options of the multiselect
Years(log) == {log[i].ts.Y : i \in DOMAIN log}

\* lines 57-63: the positions of the slider the model tries
SliderValues ==
    {n \in SliderMin..SliderMax :
        \E i \in 0..(SliderSteps - 1) : n = SliderMin + SliderStep * i}

ArtistKey(r) == <<r.master_metadata_album_artist_name>>

\* grouping by the title alone
TrackKeyTitleOnly(r) == <<r.master_metadata_track_name, NaN>>

TrackKey(r) == <<r.master_metadata_track_name, r.master_metadata_album_artist_name>>

Keyed(rows, artistOnly) ==
    [i \in DOMAIN rows |->
        [key |-> IF artistOnly THEN ArtistKey(rows[i]) ELSE TrackKey(rows[i]),
         hours_played |-> rows[i].hours_played]]

\* lines 70-78, on the frame line 69 left
TopArtists(rows, n) ==
    LET top == SortValues(NLargest(GroupSum(Keyed(rows, TRUE)), n), TRUE)
    IN  [i \in DOMAIN top |->
            [master_metadata_album_artist_name |-> top[i].key[1],
             hours_played |-> top[i].hours_played,
             rank |-> RankOf(i, Len(top))]]

\* the slider's value passed on to the tracks
TracksLimitFromSlider(n) == n

\* the limit line 169 passes to nlargest
TracksLimit(n) == TrackLimit

\* lines 165-174
TopTracks(rows, n) ==
    LET kept == DropNaArtist(DropNaTrack(rows))
        top == SortValues(NLargest(GroupSum(Keyed(kept, FALSE)), TracksLimit(n)),
                          TRUE)
    IN  [i \in DOMAIN top |->
            [Rank |-> RankOf(i, Len(top)),
             master_metadata_track_name |-> top[i].key[1],
             master_metadata_album_artist_name |-> top[i].key[2],
             hours_played |-> top[i].hours_played]]

\* lines 132-135: the columns hour and day_of_week
WithCalendar(rows) ==
    [i \in DOMAIN rows |->
        [ts |-> rows[i].ts,
         ms_played |-> rows[i].ms_played,
         master_metadata_album_artist_name |->
             rows[i].master_metadata_album_artist_name,
         master_metadata_track_name |-> rows[i].master_metadata_track_name,
         hours_played |-> rows[i].hours_played,
         hour |-> rows[i].ts.h,
         day_of_week |-> DayName(rows[i].ts)]]

RECURSIVE Ascending(_)
\* the elements of a set of numbers in ascending order
Ascending(S) ==
    IF S = {} THEN <<>>
    ELSE LET m == CHOOSE x \in S : \A y \in S : x <= y
         IN  <<m>> \o Ascending(S \ {m})

\* the rows of the pivot table: every category of day_of_week when pandas
\* groups with observed=False (and there is a row to group), else only the
\* days that occur
PivotIndex(rows, obs) ==
    IF obs
    THEN SelectSeq(day_order,
                   LAMBDA d : \E i \in DOMAIN rows : rows[i].day_of_week = d)
    ELSE IF rows = <<>> THEN <<>> ELSE day_order

\* the columns of the pivot table: the hours that occur
PivotColumns(rows) == Ascending({rows[i].hour : i \in DOMAIN rows})

\* lines 137-143
PivotTable(rows, obs) ==
    LET index == PivotIndex(rows, obs)
        columns == PivotColumns(rows)
    IN  [index |-> index,
         columns |-> columns,
         values |->
            [c \in Range(index) \X Range(columns) |->
                SumHours(SelectSeq(rows,
                    LAMBDA r : r.day_of_week = c[1] /\ r.hour = c[2]))]]

NoPivot == [index |-> <<>>, columns |-> <<>>, values |-> <<>>]

(***************************************************************************)
(* The inputs the model draws from.                                        *)
(***************************************************************************)
FileA == <<"a", ".", "j", "s", "o", "n">>
FileB == <<"b", ".", "j", "s", "o", "n">>
FileTxt == <<"n", ".", "t", "x", "t">>
FileNames == {FileA, FileB, FileTxt}

Monday2020 == [Y |-> 2020, M |-> 1, D |-> 6, h |-> 3]
Tuesday2021 == [Y |-> 2021, M |-> 6, D |-> 15, h |-> 14]
BadTs == [Y |-> 2020, M |-> 13, D |-> 1, h |-> 0]

Rec(ts, ms, artist, track) ==
    [ts |-> ts, ms_played |-> ms,
     master_metadata_album_artist_name |-> artist,
     master_metadata_track_name |-> track]

Batch(data) == [text_ok |-> TRUE, data |-> data]

\* a file json.load (or open) raises on: the text breaks off after a record
Malformed == [text_ok |-> FALSE, data |-> <<Rec(Tuesday2021, 3600000, 2, 2)>>]
\* the JSON text []
EmptyBatch == Batch(<<>>)
BadTsBatch == Batch(<<Rec(BadTs, 900000, 1, 1)>>)
BatchA == Batch(<<Rec(Monday2020, 900000, 1, 1), Rec(Monday2020, 1800000, 1, 2),
                  Rec(Monday2020, 3600000, 2, 1)>>)
BatchB == Batch(<<Rec(Tuesday2021, 900000, NaN, 1)>>)

\* what the session writes into a file
Contents(file) ==
    IF EndsWith(file, JsonSuffix)
    THEN {Malformed, EmptyBatch, BadTsBatch, BatchA, BatchB}
    ELSE {Malformed}

\* the records of a generated batch: a short play in 2020 or a long one in
\* 2021, by either artist or none, of the track or of none
GenRecords ==
    {Rec(ts, IF ts = Monday2020 THEN 900000 ELSE 3600000, artist, track) :
        ts \in {Monday2020, Tuesday2021}, artist \in {NaN, 1, 2},
        track \in {NaN, 1}}

SeqsUpTo(S, n) == UNION {[1..k -> S] : k \in 0..n}

\* i tracks of distinct hours_played by seven artists in turn
ManyTracks(n) ==
    Batch([i \in 1..n |->
            Rec(IF i % 2 = 0 THEN Monday2020 ELSE Tuesday2021, 3600 * i,
                (i % 7) + 1, i)])

\* one title by two artists, by none, and a play without a title
MixedBatch ==
    Batch(<<Rec(Monday2020, 900000, 1, 1), Rec(Monday2020, 3600000, 2, 1),
            Rec(Monday2020, 900000, NaN, 1), Rec(Tuesday2021, 900000, 1, NaN)>>)

GenBatches ==
    {Batch(data) : data \in SeqsUpTo(GenRecords, MaxLogLen)}
        \cup {MixedBatch, ManyTracks(SliderMin + 1), ManyTracks(TrackLimit + 1)}

(***************************************************************************)
(* The state machine.                                                      *)
(***************************************************************************)
NoRun ==
    /\ cache = NoCache
    /\ outcome = "none"
    /\ errors = <<>>
    /\ warnings = <<>>
    /\ df = <<>>
    /\ year_filter = {}
    /\ num_artists = SliderMin
    /\ df_filtered = <<>>
    /\ top_artists = <<>>
    /\ heatmap_data = NoPivot
    /\ top_tracks = <<>>

\* a session that starts without the directory
Init ==
    /\ dir_exists = FALSE
    /\ files = <<>>
    /\ observed \in BOOLEAN
    /\ NoRun

\* a session that starts with one generated batch in the directory
InitAgg ==
    /\ dir_exists = TRUE
    /\ files \in {(FileA :> b) : b \in GenBatches}
    /\ observed \in BOOLEAN
    /\ NoRun

unchanged_run ==
    UNCHANGED <<observed, cache, outcome, errors, warnings, df, year_filter,
                num_artists, df_filtered, top_artists, heatmap_data, top_tracks>>

MkDir ==
    /\ ~dir_exists
    /\ dir_exists' = TRUE
    /\ UNCHANGED files
    /\ unchanged_run

RmDir ==
    /\ dir_exists
    /\ DOMAIN files = {}
    /\ dir_exists' = FALSE
    /\ UNCHANGED files
    /\ unchanged_run

WriteFile(file, content) ==
    /\ dir_exists
    /\ files' = (file :> content) @@ files
    /\ UNCHANGED dir_exists
    /\ unchanged_run

RemoveFile(file) ==
    /\ file \in DOMAIN files
    /\ files' = [f \in DOMAIN files \ {file} |-> files[f]]
    /\ UNCHANGED dir_exists
    /\ unchanged_run

\* line 41: df = load_data(), listing being what os.listdir returns
Load(listing) == CachedLoad(cache, dir_exists, files, listing)

\* what line 41 leaves behind on every path
Loaded(load) ==
    /\ dir_exists' = (dir_exists \/ ~cache.hit)
    /\ cache' = IF ~cache.hit /\ load.outcome = "ok"
                THEN [hit |-> TRUE, df |-> load.df, warnings |-> load.warnings]
                ELSE cache
    /\ outcome' = load.outcome
    /\ errors' = load.errors
    /\ warnings' = load.warnings
    /\ df' = load.df
    /\ UNCHANGED <<files, observed>>

\* a run load_data ends: st.stop() or an exception
RunHalts(listing) ==
    /\ Load(listing).outcome # "ok"
    /\ Loaded(Load(listing))
    /\ year_filter' = {}
    /\ num_artists' = SliderMin
    /\ df_filtered' = <<>>
    /\ top_artists' = <<>>
    /\ heatmap_data' = NoPivot
    /\ top_tracks' = <<>>

\* lines 47-174 on the frame log, the sidebar holding yf and n
Aggregates(log, yf, n, obs) ==
    LET kept == DropNaArtist(FilterYears(log, yf))      \* lines 54, 69
        rows == WithCalendar(kept)
    IN  [df_filtered |-> rows,
         top_artists |-> TopArtists(kept, n),
         heatmap_data |-> PivotTable(rows, obs),
         top_tracks |-> TopTracks(rows, n)]

\* a run to the end of the script
RunCompletes(listing, yf, n) ==
    /\ Load(listing).outcome = "ok"
    /\ yf \in SUBSET Years(Load(listing).df)
    /\ Loaded(Load(listing))
    /\ year_filter' = yf
    /\ num_artists' = n
    /\ LET agg == Aggregates(Load(listing).df, yf, n, observed)
       IN  /\ df_filtered' = agg.df_filtered
           /\ top_artists' = agg.top_artists
           /\ heatmap_data' = agg.heatmap_data
           /\ top_tracks' = agg.top_tracks

\* one run of the script
Ran(listing) ==
    \/ RunHalts(listing)
    \/ \E yf \in SUBSET Years(Load(listing).df), n \in SliderValues :
            RunCompletes(listing, yf, n)

RunScript == \E listing \in Orders(DOMAIN files) : Ran(listing)

FileSystem ==
    \/ MkDir
    \/ RmDir
    \/ \E file \in FileNames : \E content \in Contents(file) : WriteFile(file, content)
    \/ \E file \in FileNames : RemoveFile(file)

Next == FileSystem \/ RunScript

Spec == Init /\ [][Next]_vars

SpecAgg == InitAgg /\ [][RunScript]_vars

(***************************************************************************)
(* Properties of load_data.  A step of an uncached run reads the files of  *)
(* the state it starts in, in the order listing.                           *)
(***************************************************************************)
UncachedRun(listing) == files' = files /\ ~cache.hit /\ Ran(listing)

Qualifying == {f \in DOMAIN files : EndsWith(f, JsonSuffix)}
Parsed == {f \in Qualifying : files[f].text_ok}
Failed == Qualifying \ Parsed

\* the record an event of the log was made from
RawOf(e) ==
    Rec(e.ts, e.ms_played, e.master_metadata_album_artist_name,
        e.master_metadata_track_name)

ValidEvent(e) ==
    /\ Parseable(e.ts)
    /\ e.hours_played * (MsPerHour \div HourScale) = e.ms_played

RECURSIVE TotalLen(_)
TotalLen(S) ==
    IF S = {} THEN 0
    ELSE LET f == CHOOSE f \in S : TRUE
         IN  Len(files[f].data) + TotalLen(S \ {f})

\* the records of file f stand in the log, in a block and in their order
HoldsBatch(log, f) ==
    \E off \in 0..Len(log) :
        /\ off + Len(files[f].data) <= Len(log)
        /\ \A i \in DOMAIN files[f].data : RawOf(log[off + i]) = files[f].data[i]

AllParseable(S) ==
    \A f \in S : \A i \in DOMAIN files[f].data : Parseable(files[f].data[i].ts)

C1Post ==
    (Parsed # {}) =>
        /\ \A f \in Failed :
              Cardinality({i \in DOMAIN warnings' :
                              warnings'[i] = LoadWarning(f)}) = 1
        /\ errors' = <<>>
        /\ outcome' # "stopped"
        /\ (AllParseable(Parsed) /\ TotalLen(Parsed) > 0) => (outcome' = "ok")
        /\ (outcome' = "ok") =>
              (/\ Len(df') = TotalLen(Parsed)
               /\ \A f \in Parsed : HoldsBatch(df', f))

C2_HaltExactlyWhenNothingParsed ==
    [][\A listing \in Orders(DOMAIN files) : UncachedRun(listing) =>
          /\ (outcome' # "ok") <=> (Parsed = {})
          /\ (outcome' # "ok") => (df' = <<>> /\ top_artists' = <<>>)
          /\ (Qualifying = {}) => (errors' = <<"No JSON files found">>)
          /\ (errors' = <<"No valid data loaded">>) =>
                (Qualifying # {} /\ Parsed = {})]_vars

\* a parsed file with a record whose ts cannot be parsed
HasBadTs(f) == \E i \in DOMAIN files[f].data : ~Parseable(files[f].data[i].ts)

\* C3 (as claimed): when one parsed batch holds an unparseable ts and another
\* is valid throughout, the load returns a log that holds the valid batch,
\* and every event of a returned log has a valid timestamp and hours_played.
C3_BadTimestampConfinedToBatch ==
    [][\A listing \in Orders(DOMAIN files) : UncachedRun(listing) =>
          /\ (outcome' = "ok") => \A i \in DOMAIN df' : ValidEvent(df'[i])
          /\ \A bad, good \in Parsed :
                (/\ HasBadTs(bad)
                 /\ files[good].data # <<>>
                 /\ ~HasBadTs(good))
                => (outcome' = "ok" /\ HoldsBatch(df', good))]_vars

\* what load_data returns, uncached, for the files of the state
FreshLoads ==
    {LoadData(dir_exists, files, listing) : listing \in Orders(DOMAIN files)}

\* C4 (as claimed): whatever was written to or removed from the directory
\* between the runs, every run gets from load_data what an uncached load of
\* the directory as it is would return.
C4_CacheFollowsDirectory ==
    [][\A listing \in Orders(DOMAIN files) : (files' = files /\ Ran(listing)) =>
          \E fresh \in FreshLoads : outcome' = fresh.outcome /\ df' = fresh.df]_vars

(***************************************************************************)
(* Properties of the aggregates, read off the state a completed run left:  *)
(* df, the sidebar's year_filter and num_artists, and the three results.   *)
(***************************************************************************)
\* the Filtered Log: every event of the log whose year is selected
Selected == SelectSeq(df, LAMBDA e : e.ts.Y \in year_filter)

\* the artists and the (title, artist) pairs of the Filtered Log
ArtistsSelected ==
    {<<Selected[i].master_metadata_album_artist_name>> : i \in DOMAIN Selected}
        \ {<<NaN>>}

PairsSelected ==
    {p \in {<<Selected[i].master_metadata_track_name,
              Selected[i].master_metadata_album_artist_name>> :
                i \in DOMAIN Selected} : p[1] # NaN /\ p[2] # NaN}

\* the hours of the Filtered Log for each artist, and for each pair
ArtistTotals ==
    Stored([a \in ArtistsSelected |->
        SumHours(SelectSeq(Selected,
            LAMBDA e : e.master_metadata_album_artist_name = a[1]))])

PairTotals ==
    Stored([p \in PairsSelected |->
        SumHours(SelectSeq(Selected,
            LAMBDA e : /\ e.master_metadata_track_name = p[1]
                       /\ e.master_metadata_album_artist_name = p[2]))])

ArtistEntries ==
    [i \in DOMAIN top_artists |->
        [key |-> <<top_artists[i].master_metadata_album_artist_name>>,
         hours_played |-> top_artists[i].hours_played,
         rank |-> top_artists[i].rank]]

TrackEntries ==
    [i \in DOMAIN top_tracks |->
        [key |-> <<top_tracks[i].master_metadata_track_name,
                   top_tracks[i].master_metadata_album_artist_name>>,
         hours_played |-> top_tracks[i].hours_played,
         rank |-> top_tracks[i].Rank]]

\* ranks 1..k, each once, the larger total at the smaller rank
RankedDescending(entries) ==
    /\ {entries[i].rank : i \in DOMAIN entries} = 1..Len(entries)
    /\ \A i, j \in DOMAIN entries :
          entries[i].rank < entries[j].rank
            => entries[i].hours_played >= entries[j].hours_played

\* C5 (as claimed): in top_artists and in top_tracks the ranks are 1..k
\* without gap or repeat, and they follow the totals downwards: rank 1 has
\* the largest total, rank i at least the total of rank i+1.
C5_RanksFollowDescendingTotals ==
    (outcome = "ok") =>
        (RankedDescending(ArtistEntries) /\ RankedDescending(TrackEntries))

\* entries are the limit entities of largest total, each with its total
TopOf(entries, totals, limit) ==
    LET keys == {entries[i].key : i \in DOMAIN entries}
    IN  /\ Len(entries) = Min(limit, Cardinality(DOMAIN totals))
        /\ Cardinality(keys) = Len(entries)
        /\ \A i \in DOMAIN entries :
              /\ entries[i].key \in DOMAIN totals
              /\ entries[i].hours_played = totals[entries[i].key]
        /\ \A e \in DOMAIN totals \ keys : \A i \in DOMAIN entries :
              totals[e] <= entries[i].hours_played

\* C6 (as claimed): with the slider at N, top_artists and top_tracks each
\* hold min(N, distinct entities) entries, the entities of largest total,
\* each with the sum of its hours_played in the selected years.
C6_BothLimitedBySlider ==
    (outcome = "ok") =>
        \A artists \in {ArtistTotals}, pairs \in {PairTotals} :
            /\ TopOf(ArtistEntries, artists, num_artists)
            /\ TopOf(TrackEntries, pairs, num_artists)

\* C6 (amended): top_artists holds min(N, distinct artists) entries for the
\* slider's N, top_tracks holds min(100, distinct pairs) entries whatever N
\* is; in both they are the entities of largest total, each with the sum of
\* its hours_played in the selected years.
C6_ArtistsBySliderTracksByHundred ==
    (outcome = "ok") =>
        \A artists \in {ArtistTotals}, pairs \in {PairTotals} :
            /\ TopOf(ArtistEntries, artists, num_artists)
            /\ TopOf(TrackEntries, pairs, TrackLimit)

\* both limits cut: more artists than the slider allows, more than 100 pairs
C6_Witness ==
    /\ outcome = "ok"
    /\ Cardinality(ArtistsSelected) > num_artists
    /\ Len(top_artists) = num_artists
    /\ Cardinality(PairsSelected) > TrackLimit
    /\ Len(top_tracks) = TrackLimit

\* C7: every entry of top_tracks has a title and an artist and holds the sum
\* of hours_played of exactly the selected events with that title and that
\* artist, and no two entries have the same title and artist: plays of one
\* title by different artists are never summed together, and a play without
\* title or without artist is in no entry.
C7_TracksKeyedByTitleAndArtist ==
    (outcome = "ok") =>
        /\ \A i \in DOMAIN top_tracks :
              LET t == top_tracks[i].master_metadata_track_name
                  a == top_tracks[i].master_metadata_album_artist_name
              IN  /\ t # NaN
                  /\ a # NaN
                  /\ top_tracks[i].hours_played =
                        SumHours(SelectSeq(Selected,
                            LAMBDA e : /\ e.master_metadata_track_name = t
                                       /\ e.master_metadata_album_artist_name = a))
        /\ \A i, j \in DOMAIN top_tracks :
              (/\ top_tracks[i].master_metadata_track_name =
                    top_tracks[j].master_metadata_track_name
               /\ top_tracks[i].master_metadata_album_artist_name =
                    top_tracks[j].master_metadata_album_artist_name) => (i = j)

\* one title by two artists in two entries, beside a selected play without
\* artist and one without title
C7_Witness ==
    /\ outcome = "ok"
    /\ \E i, j \in DOMAIN top_tracks :
          /\ top_tracks[i].master_metadata_track_name =
                top_tracks[j].master_metadata_track_name
          /\ top_tracks[i].master_metadata_album_artist_name #
                top_tracks[j].master_metadata_album_artist_name
    /\ \E i \in DOMAIN Selected : Selected[i].master_metadata_album_artist_name = NaN
    /\ \E i \in DOMAIN Selected : Selected[i].master_metadata_track_name = NaN

RECURSIVE SumCells(_, _)
SumCells(f, S) ==
    IF S = {} THEN 0
    ELSE LET c == CHOOSE c \in S : TRUE
         IN  f[c] + SumCells(f, S \ {c})

\* C8 (as claimed): the cells of the heatmap add up to the hours_played of
\* the whole Filtered Log, the events without artist included.
C8_HeatmapSumsFilteredLog ==
    (outcome = "ok") =>
        SumCells(heatmap_data.values, DOMAIN heatmap_data.values)
            = SumHours(Selected)

AllHours == [i \in 1..24 |-> i - 1]

\* the events of the Filtered Log in bucket (day, hour)
Bucket(day, hour) ==
    SelectSeq(Selected, LAMBDA e : DayName(e.ts) = day /\ e.ts.h = hour)

\* C9 (as claimed): the heatmap has the rows Monday..Sunday in that order
\* and the columns 0..23, a value in every cell, 0 where no event falls.
C9_HeatmapIsFullGrid ==
    (outcome = "ok") =>
        /\ heatmap_data.index = day_order
        /\ heatmap_data.columns = AllHours
        /\ DOMAIN heatmap_data.values = Range(day_order) \X Range(AllHours)
        /\ \A c \in DOMAIN heatmap_data.values :
              (Bucket(c[1], c[2]) = <<>>) => (heatmap_data.values[c] = 0)

\* C10 (as claimed): with no year selected the run completes with an empty
\* Filtered Log, empty top_artists and top_tracks and a 7x24 heatmap of zeros.
C10_EmptySelectionGivesZeroGrid ==
    (outcome = "ok" /\ year_filter = {}) =>
        /\ df_filtered = <<>>
        /\ top_artists = <<>>
        /\ top_tracks = <<>>
        /\ heatmap_data.index = day_order
        /\ heatmap_data.columns = AllHours
        /\ heatmap_data.values = [c \in Range(day_order) \X Range(AllHours) |-> 0]
====
